---- MODULE Spec2Model ----
(***************************************************************************)
(* A model of the CzechiBank analytics page (src/src/app/page.tsx): the    *)
(* React state of HomePage, the credential kept in localStorage, the three *)
(* reads of one fetchData call and their settlement by Promise.all, the    *)
(* logout and sort handlers, and the part of a render that touches state   *)
(* (the two in-place sorts of the transaction array and the table sort).   *)
(***************************************************************************)
EXTENDS Integers, Sequences, FiniteSets, TLC

VARIABLES
    transactions,        \* useState<Transaction[]>  (the array object, in its current order)
    accounts,            \* useState<BankAccount[]>
    currentUser,         \* useState<User | null>    (the user's id, or NoUser)
    loading,             \* useState(false)
    initialLoading,      \* useState(true)
    error,               \* useState<string | null>
    token,               \* useState<string>('')     (the entered credential)
    isAuthenticated,     \* useState(false)
    sortField,           \* useState<SortField>('date')
    sortOrder,           \* useState<SortOrder>('desc')
    storage,             \* localStorage['czechibank_api_key'], or NoKey
    mounted,             \* the mount effect has run
    authToken,           \* the argument of the fetchData call last started
    reads,               \* the three reads of that call: response and whether it has arrived
    orphans,             \* reads of earlier, settled calls that have not arrived yet
    sortedTransactions,  \* the rows of the table as last rendered
    outcome,             \* history: how the last settled call was classified
    prev,                \* history: how the call before the one last started was classified
    same,                \* history: the call last started repeats the previous one
                         \*          (same credential, same per-endpoint responses)
    server               \* the kind of server this session talks to

vars == <<transactions, accounts, currentUser, loading, initialLoading, error, token,
          isAuthenticated, sortField, sortOrder, storage, mounted, authToken, reads,
          orphans, sortedTransactions, outcome, prev, same, server>>

page == <<transactions, accounts, currentUser, loading, initialLoading, error, token,
          isAuthenticated, sortField, sortOrder, storage, sortedTransactions>>

-----------------------------------------------------------------------------
(* Bounds and input sets *)

MaxTx == 2          \* longest transaction list a steady server returns
MaxTxFlaky == 1     \* longest transaction list a flaky server returns
MaxOrphans == 1     \* most reads of settled calls still in flight when a call starts
MaxTxViews == 4     \* longest transaction list the views are computed from

NoKey == "<no key>"
NoUser == "<no user>"
NoError == "<null>"

Creds == {"k1", "k2"}
ValidCreds == {"k1"}
UserIds == {"u1", "u2"}
Amounts == {-1, 2}
EarlyDate == [year |-> 1, day |-> 1, hour |-> 0]
LateDate == [year |-> 1, day |-> 2, hour |-> 0]
CreatedAts == {EarlyDate, LateDate}
Parties == {<<"u1", "u2">>, <<"u2", "u1">>}
Balances == {5}

Endpoints == {"transactions", "bank-account", "user"}
Faults == {"e404", "refused", "e500", "thrown"}
Responses == {"ok", "e401"} \cup Faults

SortFields == {"date", "amount", "from", "to"}
SortOrders == {"asc", "desc"}

UserName(u) == IF u = "u2" THEN "Bob" ELSE "Alice"

\* The order localeCompare puts the display names in.
Collate(name) == IF name = "Alice" THEN 1 ELSE 2

\* The transactions the server holds: half of the combinations of the field
\* values, chosen so that every two field values occur together in one.
TxShapes ==
    {s \in [amount : Amounts, createdAt : CreatedAts, from : UserIds, to : UserIds] :
        /\ <<s.from, s.to>> \in Parties
        /\ (s.amount > 0) <=> ((s.createdAt = EarlyDate) <=> (s.from = "u1"))}

\* A payload of the transactions endpoint: each element carries its own id.
TxLists(max) ==
    UNION {{[i \in 1..n |->
                [id |-> i, amount |-> s[i].amount, createdAt |-> s[i].createdAt,
                 from |-> s[i].from, to |-> s[i].to]] : s \in [1..n -> TxShapes]} :
           n \in 0..max}

AccountLists == {<<>>} \cup {<<[balance |-> b]>> : b \in Balances}

\* The transactions the views are computed from.  Two on one calendar day at
\* different hours, one a month later, one on the same month and day a year
\* later; u1 receives and sends, and deals with u2 (Bob) and with u3, who
\* is shown by the name u1 has.
JanFirst == [year |-> 1, day |-> 1, hour |-> 0]
JanFirstLater == [year |-> 1, day |-> 1, hour |-> 5]
FebFirst == [year |-> 1, day |-> 32, hour |-> 0]
NextJanFirst == [year |-> 2, day |-> 1, hour |-> 0]

ViewShapes ==
    {[amount |-> 2, createdAt |-> JanFirst, from |-> "u2", to |-> "u1"],
     [amount |-> -1, createdAt |-> JanFirstLater, from |-> "u1", to |-> "u2"],
     [amount |-> 2, createdAt |-> FebFirst, from |-> "u1", to |-> "u3"],
     [amount |-> 2, createdAt |-> NextJanFirst, from |-> "u3", to |-> "u1"]}

ViewLists ==
    UNION {{[i \in 1..n |->
                [id |-> i, amount |-> s[i].amount, createdAt |-> s[i].createdAt,
                 from |-> s[i].from, to |-> s[i].to]] : s \in [1..n -> ViewShapes]} :
           n \in 0..MaxTxViews}

ViewAccounts == {<<>>, <<[balance |-> 2]>>}

-----------------------------------------------------------------------------
(* Pure functions of the page *)

\* new Date(createdAt).getTime(), in hours
GetTime(c) == ((c.year * 365) + c.day) * 24 + c.hour

Abs(x) == IF x < 0 THEN -x ELSE x

\* The comparator of balanceData's sort.
BalanceCompare(a, b) == GetTime(a.createdAt) - GetTime(b.createdAt)

\* The comparator of runningBalanceData's sort.
RunningCompare(a, b) == GetTime(b.createdAt) - GetTime(a.createdAt)

LocaleCompare(x, y) ==
    IF Collate(x) < Collate(y) THEN -1 ELSE IF Collate(x) > Collate(y) THEN 1 ELSE 0

\* The comparator of sortedTransactions' sort.
TableCompare(field, order, a, b) ==
    LET multiplier == IF order = "asc" THEN 1 ELSE -1
    IN CASE field = "date" ->
              (GetTime(a.createdAt) - GetTime(b.createdAt)) * multiplier
         [] field = "amount" -> (a.amount - b.amount) * multiplier
         [] field = "from" ->
              LocaleCompare(UserName(a.from), UserName(b.from)) * multiplier
         [] field = "to" ->
              LocaleCompare(UserName(a.to), UserName(b.to)) * multiplier
         [] OTHER -> 0

\* The comparator of topPartnersData's sort.
TotalCompare(a, b) == b.total - a.total

\* The comparator of dailyTransactionData's sort.
MonthDayCompare(a, b) ==
    IF a.date.month - b.date.month # 0
    THEN a.date.month - b.date.month
    ELSE a.date.day - b.date.day

\* The comparators the page sorts with.
ByBalance == [by |-> "balance"]
ByRunning == [by |-> "running"]
ByTable(field, order) == [by |-> "table", field |-> field, order |-> order]
ByTotal == [by |-> "total"]
ByMonthDay == [by |-> "month-day"]

Compare(cmp, a, b) ==
    CASE cmp.by = "balance" -> BalanceCompare(a, b)
      [] cmp.by = "running" -> RunningCompare(a, b)
      [] cmp.by = "total" -> TotalCompare(a, b)
      [] cmp.by = "month-day" -> MonthDayCompare(a, b)
      [] OTHER -> TableCompare(cmp.field, cmp.order, a, b)

\* A sort that leaves elements of equal key in reverse order.
ReversingSort(s, cmp) ==
    LET n == Len(s)
        rank == [i \in 1..n |->
                    1 + Cardinality({j \in 1..n :
                            \/ Compare(cmp, s[j], s[i]) < 0
                            \/ Compare(cmp, s[j], s[i]) = 0 /\ j > i})]
    IN [k \in 1..n |-> s[CHOOSE i \in 1..n : rank[i] = k]]

\* Array.prototype.sort with comparator cmp: stable, so an element goes
\* behind every element that compares smaller and every equal one before it.
StableSort(s, cmp) ==
    LET n == Len(s)
        rank == [i \in 1..n |->
                    1 + Cardinality({j \in 1..n :
                            \/ Compare(cmp, s[j], s[i]) < 0
                            \/ Compare(cmp, s[j], s[i]) = 0 /\ j < i})]
    IN [k \in 1..n |-> s[CHOOSE i \in 1..n : rank[i] = k]]

\* balanceData sorts the state array in place, oldest first.
BalanceSorted(txs) == StableSort(txs, ByBalance)

\* runningBalanceData sorts the same array in place again, newest first.
RunningSorted(txs) == StableSort(txs, ByRunning)

\* A table sort that leaves rows of equal key in reverse order.
TableSortedReversing(txs, field, order) == ReversingSort(txs, ByTable(field, order))

\* sortedTransactions: a sorted copy of the array as balanceData left it.
TableSorted(txs, field, order) == StableSort(txs, ByTable(field, order))

\* The transaction array after one render of HomePage.
RenderedTransactions(txs) == RunningSorted(BalanceSorted(txs))

\* The table rows one render of HomePage produces.
RenderedRows(txs, field, order) == TableSorted(BalanceSorted(txs), field, order)

IsIncoming(tx, user) == tx.to = user

\* The reducer of transactionTypes with the amount taken as stored.
TypeStepSigned(acc, tx, user) ==
    IF IsIncoming(tx, user)
    THEN [acc EXCEPT !.Income = acc.Income + tx.amount]
    ELSE [acc EXCEPT !.Expense = acc.Expense + tx.amount]

\* The reducer of transactionTypes: one transaction added to Income or Expense.
TypeStep(acc, tx, user) ==
    IF IsIncoming(tx, user)
    THEN [acc EXCEPT !.Income = acc.Income + Abs(tx.amount)]
    ELSE [acc EXCEPT !.Expense = acc.Expense + Abs(tx.amount)]

RECURSIVE TypeFold(_, _, _)
TypeFold(acc, txs, user) ==
    IF txs = <<>> THEN acc
    ELSE TypeFold(TypeStep(acc, Head(txs), user), Tail(txs), user)

\* transactionTypes
TransactionTypes(txs, user) == TypeFold([Income |-> 0, Expense |-> 0], txs, user)

RECURSIVE VolumeFold(_, _)
VolumeFold(sum, txs) ==
    IF txs = <<>> THEN sum ELSE VolumeFold(sum + Abs(Head(txs).amount), Tail(txs))

\* transactionStats.totalVolume
TotalVolume(txs) == VolumeFold(0, txs)

-----------------------------------------------------------------------------
(* The derived views of a render.  Each takes the state array as the render  *)
(* finds it; balanceData sorts that array oldest first before any view reads *)
(* it, and runningBalanceData sorts it newest first.                         *)

\* Days of the year before the first of each month.
MonthStarts == <<0, 31, 59, 90, 120, 151, 181, 212, 243, 273, 304, 334>>

MonthNames == <<"January", "February", "March", "April", "May", "June", "July",
                "August", "September", "October", "November", "December">>

MonthOf(day) == Cardinality({m \in 1..12 : MonthStarts[m] < day})

DayOfMonth(day) == day - MonthStarts[MonthOf(day)]

\* toLocaleString(_, {month: 'numeric', day: 'numeric'}): month and day, no
\* year and no time of day.
DateKey(c) == [month |-> MonthOf(c.day), day |-> DayOfMonth(c.day)]

\* toLocaleString('default', {month: 'long'})
MonthKey(c) == MonthNames[MonthOf(c.day)]

\* findIndex: the first index whose bucket has the key, 0 when there is none.
FindIndex(acc, date) ==
    IF \E i \in 1..Len(acc) : acc[i].date = date
    THEN CHOOSE i \in 1..Len(acc) :
            acc[i].date = date /\ \A j \in 1..(i - 1) : acc[j].date # date
    ELSE 0

\* The reducer of balanceData with the amount taken as stored.
BalanceStepSigned(acc, tx, user) ==
    LET lastBalance == IF Len(acc) > 0 THEN acc[Len(acc)].balance ELSE 0
        transactionAmount == IF IsIncoming(tx, user) THEN tx.amount ELSE -tx.amount
        newBalance == lastBalance + transactionAmount
        date == DateKey(tx.createdAt)
        existingDateIndex == FindIndex(acc, date)
    IN IF existingDateIndex # 0
       THEN [acc EXCEPT ![existingDateIndex].balance = newBalance]
       ELSE Append(acc, [date |-> date, balance |-> newBalance,
                         transactionAmount |-> transactionAmount])

\* The reducer of balanceData.
BalanceStep(acc, tx, user) ==
    LET lastBalance == IF Len(acc) > 0 THEN acc[Len(acc)].balance ELSE 0
        transactionAmount ==
            IF IsIncoming(tx, user) THEN Abs(tx.amount) ELSE -Abs(tx.amount)
        newBalance == lastBalance + transactionAmount
        date == DateKey(tx.createdAt)
        existingDateIndex == FindIndex(acc, date)
    IN IF existingDateIndex # 0
       THEN [acc EXCEPT ![existingDateIndex].balance = newBalance]
       ELSE Append(acc, [date |-> date, balance |-> newBalance,
                         transactionAmount |-> transactionAmount])

RECURSIVE BalanceFold(_, _, _)
BalanceFold(acc, txs, user) ==
    IF txs = <<>> THEN acc
    ELSE BalanceFold(BalanceStep(acc, Head(txs), user), Tail(txs), user)

\* A balance curve that opens with a point of balance 0.
BalanceDataOpened(txs, user) ==
    BalanceFold(<<[date |-> [month |-> 0, day |-> 0], balance |-> 0,
                   transactionAmount |-> 0]>>, BalanceSorted(txs), user)

\* balanceData
BalanceData(txs, user) == BalanceFold(<<>>, BalanceSorted(txs), user)

\* The reducer of monthlyData; the object's values in the order of insertion.
MonthlyStep(acc, tx, user) ==
    LET month == MonthKey(tx.createdAt)
        amount == Abs(tx.amount)
        known == \E i \in 1..Len(acc) : acc[i].month = month
        held == IF known THEN acc
                ELSE Append(acc, [month |-> month, incoming |-> 0, outgoing |-> 0])
        at == CHOOSE i \in 1..Len(held) : held[i].month = month
    IN IF IsIncoming(tx, user)
       THEN [held EXCEPT ![at].incoming = held[at].incoming + amount]
       ELSE [held EXCEPT ![at].outgoing = held[at].outgoing - amount]

RECURSIVE MonthlyFold(_, _, _)
MonthlyFold(acc, txs, user) ==
    IF txs = <<>> THEN acc
    ELSE MonthlyFold(MonthlyStep(acc, Head(txs), user), Tail(txs), user)

\* monthlyChartData
MonthlyChartData(txs, user) == MonthlyFold(<<>>, BalanceSorted(txs), user)

Max(S) == CHOOSE x \in S : \A y \in S : y <= x

Min(S) == CHOOSE x \in S : \A y \in S : x <= y

AbsAmounts(txs) == {Abs(txs[i].amount) : i \in 1..Len(txs)}

\* Math.round of sum / count, for a sum that is not negative.
RoundedQuotient(sum, count) == ((2 * sum) + count) \div (2 * count)

\* transactionStats
TransactionStats(txs) ==
    [totalTransactions |-> Len(txs),
     totalVolume |-> TotalVolume(txs),
     averageAmount |-> IF Len(txs) > 0
                       THEN RoundedQuotient(TotalVolume(txs), Len(txs)) ELSE 0,
     largestTransaction |-> IF Len(txs) > 0 THEN Max(AbsAmounts(txs)) ELSE 0,
     smallestTransaction |-> IF Len(txs) > 0 THEN Min(AbsAmounts(txs)) ELSE 0]

\* The reducer of topPartners with the amount taken as stored.
PartnerStepSigned(acc, tx, user) ==
    LET isIncoming == IsIncoming(tx, user)
        partnerName == IF isIncoming THEN UserName(tx.from) ELSE UserName(tx.to)
        amount == tx.amount
        known == \E i \in 1..Len(acc) : acc[i].name = partnerName
        held == IF known THEN acc
                ELSE Append(acc, [name |-> partnerName, incoming |-> 0, outgoing |-> 0])
        at == CHOOSE i \in 1..Len(held) : held[i].name = partnerName
    IN IF isIncoming
       THEN [held EXCEPT ![at].incoming = held[at].incoming + amount]
       ELSE [held EXCEPT ![at].outgoing = held[at].outgoing + amount]

\* The reducer of topPartners; the object's values in the order of insertion.
PartnerStep(acc, tx, user) ==
    LET isIncoming == IsIncoming(tx, user)
        partnerName == IF isIncoming THEN UserName(tx.from) ELSE UserName(tx.to)
        amount == Abs(tx.amount)
        known == \E i \in 1..Len(acc) : acc[i].name = partnerName
        held == IF known THEN acc
                ELSE Append(acc, [name |-> partnerName, incoming |-> 0, outgoing |-> 0])
        at == CHOOSE i \in 1..Len(held) : held[i].name = partnerName
    IN IF isIncoming
       THEN [held EXCEPT ![at].incoming = held[at].incoming + amount]
       ELSE [held EXCEPT ![at].outgoing = held[at].outgoing + amount]

RECURSIVE PartnerFold(_, _, _)
PartnerFold(acc, txs, user) ==
    IF txs = <<>> THEN acc
    ELSE PartnerFold(PartnerStep(acc, Head(txs), user), Tail(txs), user)

\* topPartners as Object.values lists it.
TopPartners(txs, user) == PartnerFold(<<>>, BalanceSorted(txs), user)

WithTotal(partners) ==
    [i \in 1..Len(partners) |->
        [name |-> partners[i].name, incoming |-> partners[i].incoming,
         outgoing |-> partners[i].outgoing,
         total |-> partners[i].incoming + partners[i].outgoing]]

\* slice(0, n)
Slice(s, n) == SubSeq(s, 1, IF Len(s) < n THEN Len(s) ELSE n)

\* topPartnersData
TopPartnersData(txs, user) ==
    Slice(StableSort(WithTotal(TopPartners(txs, user)), ByTotal), 5)

\* The reducer of dailyTransactionCount; the object's entries in the order
\* of insertion.
DailyStep(acc, tx) ==
    LET date == DateKey(tx.createdAt)
        at == FindIndex(acc, date)
    IN IF at # 0
       THEN [acc EXCEPT ![at].count = acc[at].count + 1]
       ELSE Append(acc, [date |-> date, count |-> 1])

RECURSIVE DailyFold(_, _)
DailyFold(acc, txs) ==
    IF txs = <<>> THEN acc ELSE DailyFold(DailyStep(acc, Head(txs)), Tail(txs))

\* dailyTransactionData
DailyTransactionData(txs) ==
    StableSort(DailyFold(<<>>, BalanceSorted(txs)), ByMonthDay)

\* accounts[0]?.balance || 0
SeedBalance(accs) == IF Len(accs) > 0 THEN accs[1].balance ELSE 0

\* The reducer of runningBalanceData.
RunningStep(acc, tx, user, seed) ==
    LET currentBalance == IF Len(acc) > 0 THEN acc[Len(acc)].balance ELSE seed
        isIncomingTransaction == IsIncoming(tx, user)
        transactionAmount ==
            IF isIncomingTransaction THEN -Abs(tx.amount) ELSE Abs(tx.amount)
        newBalance == currentBalance + transactionAmount
        date == DateKey(tx.createdAt)
        existingDateIndex == FindIndex(acc, date)
    IN IF existingDateIndex # 0
       THEN [acc EXCEPT
               ![existingDateIndex].incoming =
                   IF isIncomingTransaction THEN @ + Abs(tx.amount) ELSE @,
               ![existingDateIndex].outgoing =
                   IF isIncomingTransaction THEN @ ELSE @ - Abs(tx.amount),
               ![existingDateIndex].balance = newBalance]
       ELSE Append(acc, [date |-> date, balance |-> newBalance,
                         incoming |-> IF isIncomingTransaction THEN Abs(tx.amount) ELSE 0,
                         outgoing |-> IF isIncomingTransaction THEN 0 ELSE -Abs(tx.amount)])

RECURSIVE RunningFold(_, _, _, _)
RunningFold(acc, txs, user, seed) ==
    IF txs = <<>> THEN acc
    ELSE RunningFold(RunningStep(acc, Head(txs), user, seed), Tail(txs), user, seed)

\* reverse()
Reverse(s) == [i \in 1..Len(s) |-> s[Len(s) + 1 - i]]

\* runningBalanceData
RunningBalanceData(txs, accs, user) ==
    Reverse(RunningFold(<<>>, RenderedTransactions(txs), user, SeedBalance(accs)))

\* Every view one render derives from the state it reads.
Views(txs, accs, user) ==
    [balanceData |-> BalanceData(txs, user),
     monthlyChartData |-> MonthlyChartData(txs, user),
     transactionTypes |-> TransactionTypes(BalanceSorted(txs), user),
     transactionStats |-> TransactionStats(BalanceSorted(txs)),
     topPartnersData |-> TopPartnersData(txs, user),
     dailyTransactionData |-> DailyTransactionData(txs),
     runningBalanceData |-> RunningBalanceData(txs, accs, user)]

-----------------------------------------------------------------------------
(* The error classification of fetchData's catch block *)

MsgUnauthorized == "Authentication failed. Please check your API key and try again."
MsgNotFound == "API endpoint not found. Please verify the API server is running and the endpoints are correct."
MsgRefused == "Could not connect to the API server. Please make sure it is running at http://localhost:3000"
MsgGeneric == "Failed to fetch data"
MsgUnexpected == "An unexpected error occurred. Please try again."

IsAxiosError(r) == r # "thrown"

ResponseStatus(r) ==
    CASE r = "e401" -> 401 [] r = "e404" -> 404 [] r = "e500" -> 500 [] OTHER -> 0

ErrorCode(r) == IF r = "refused" THEN "ECONNREFUSED" ELSE "ERR"

ErrorMessage(r) ==
    IF IsAxiosError(r)
    THEN IF ResponseStatus(r) = 401 THEN MsgUnauthorized
         ELSE IF ResponseStatus(r) = 404 THEN MsgNotFound
         ELSE IF ErrorCode(r) = "ECONNREFUSED" THEN MsgRefused
         ELSE MsgGeneric
    ELSE MsgUnexpected

\* A catch block that never removes the stored credential.
RemovesNoKey(r) == FALSE

\* A catch block that removes the stored credential on every answered error.
RemovesKeyOnAnyStatus(r) == IsAxiosError(r) /\ ResponseStatus(r) # 0

\* Whether the catch block removes the stored credential.
RemovesStoredKey(r) == IsAxiosError(r) /\ ResponseStatus(r) = 401

\* The class of failure a displayed message stands for.
Classification(msg) ==
    CASE msg = MsgUnauthorized -> "unauthorized"
      [] msg = MsgNotFound -> "not-found"
      [] msg = MsgRefused -> "refused"
      [] msg = MsgGeneric -> "generic"
      [] OTHER -> "unexpected"

Classes == {"success", "unauthorized", "not-found", "refused", "generic", "unexpected"}

-----------------------------------------------------------------------------
(* The server: what each read of a call with credential cred will answer.  *)
(* A read answers 401 when the credential is not valid.  A flaky server    *)
(* has one endpoint that now and then fails in another way; a steady       *)
(* server has none.                                                        *)

SteadyServer == [faulty |-> "none", fault |-> "none"]

\* Every endpoint is the faulty one of some server, and every fault occurs.
FlakyServers ==
    {[faulty |-> "transactions", fault |-> "e404"],
     [faulty |-> "bank-account", fault |-> "refused"],
     [faulty |-> "user", fault |-> "e500"],
     [faulty |-> "transactions", fault |-> "thrown"]}

\* What the endpoints answer by the credential alone.
Verdict(cred) == IF cred \in ValidCreds THEN "ok" ELSE "e401"

Plans(srv, cred) ==
    {[e \in Endpoints |-> Verdict(cred)]} \cup
    {[e \in Endpoints |-> IF e = srv.faulty THEN srv.fault ELSE Verdict(cred)] :
        x \in (IF srv = SteadyServer THEN {} ELSE {srv})}

PlanOf(rs) == [e \in Endpoints |-> rs[e].resp]

\* The bodies an endpoint can answer with: data.transactions,
\* data.bankAccounts, and the user under data.
SteadyTxLists == TxLists(MaxTx)

FlakyTxLists == TxLists(MaxTxFlaky)

Body(srv, e) ==
    CASE e = "transactions" -> IF srv = SteadyServer THEN SteadyTxLists ELSE FlakyTxLists
      [] e = "bank-account" -> AccountLists
      [] OTHER -> UserIds

\* What a read holds before a body has arrived.
Blank(e) == IF e = "user" THEN NoUser ELSE <<>>

Sent(p) == [e \in Endpoints |-> [resp |-> p[e], arrived |-> FALSE, data |-> Blank(e)]]

Done(p) == [e \in Endpoints |-> [resp |-> p[e], arrived |-> TRUE, data |-> Blank(e)]]

Pending(rs) == {e \in Endpoints : ~rs[e].arrived}

-----------------------------------------------------------------------------

InitPage ==
    /\ transactions = <<>>
    /\ accounts = <<>>
    /\ currentUser = NoUser
    /\ loading = FALSE
    /\ initialLoading = TRUE
    /\ error = NoError
    /\ token = ""
    /\ isAuthenticated = FALSE
    /\ sortField = "date"
    /\ sortOrder = "desc"
    /\ storage \in {NoKey} \cup Creds
    /\ mounted = FALSE
    /\ authToken = ""
    /\ reads = Done([e \in Endpoints |-> "ok"])
    /\ orphans = 0
    /\ sortedTransactions = <<>>
    /\ outcome = "none"
    /\ prev = "none"
    /\ same = FALSE

Init == InitPage /\ server \in FlakyServers

InitSteady == InitPage /\ server = SteadyServer

\* What a render does to the state array and to the table, given the state
\* the render reads.
Render(txs, field, order) ==
    /\ transactions' = RenderedTransactions(txs)
    /\ sortedTransactions' = RenderedRows(txs, field, order)

\* fetchData up to its await: the flags, and the three reads sent.
StartFetch(cred) ==
    /\ Cardinality(Pending(reads)) + orphans <= MaxOrphans
    /\ loading' = TRUE
    /\ error' = NoError
    /\ authToken' = cred
    /\ \E p \in Plans(server, cred) :
        /\ reads' = Sent(p)
        /\ same' = (outcome # "none" /\ cred = authToken /\ p = PlanOf(reads))
    /\ prev' = outcome
    /\ orphans' = orphans + Cardinality(Pending(reads))
    /\ Render(transactions, sortField, sortOrder)
    /\ UNCHANGED <<accounts, currentUser, isAuthenticated, sortField, sortOrder,
                   storage, outcome, server>>

\* The mount effect.
Mount ==
    /\ ~mounted
    /\ mounted' = TRUE
    /\ IF storage # NoKey /\ storage # ""
       THEN /\ token' = storage
            /\ StartFetch(storage)
            /\ UNCHANGED initialLoading
       ELSE /\ initialLoading' = FALSE
            /\ Render(transactions, sortField, sortOrder)
            /\ UNCHANGED <<accounts, currentUser, loading, error, token, isAuthenticated,
                           sortField, sortOrder, storage, authToken, reads, orphans,
                           outcome, prev, same, server>>

\* The login form is on screen.
FormShown == mounted /\ ~initialLoading /\ ~isAuthenticated

\* The dashboard is on screen.
DashboardShown == mounted /\ ~initialLoading /\ isAuthenticated

\* onChange of the API key input.
ChangeToken(t) ==
    /\ FormShown
    /\ t # token
    /\ token' = t
    /\ Render(transactions, sortField, sortOrder)
    /\ UNCHANGED <<accounts, currentUser, loading, initialLoading, error, isAuthenticated,
                   sortField, sortOrder, storage, mounted, authToken, reads, orphans,
                   outcome, prev, same, server>>

\* A Continue button that is not disabled while loading.
ContinueWhileLoading ==
    /\ FormShown
    /\ StartFetch(token)
    /\ UNCHANGED <<initialLoading, token, mounted>>

\* onClick of the Continue button (disabled while loading).
Continue ==
    /\ FormShown
    /\ ~loading
    /\ StartFetch(token)
    /\ UNCHANGED <<initialLoading, token, mounted>>

\* A read of the call in flight succeeds and others are still awaited.
ReadSucceeds(e) ==
    /\ loading
    /\ ~reads[e].arrived
    /\ reads[e].resp = "ok"
    /\ Pending(reads) # {e}
    /\ \E d \in Body(server, e) :
        reads' = [reads EXCEPT ![e].arrived = TRUE, ![e].data = d]
    /\ UNCHANGED <<page, mounted, authToken, orphans, outcome, prev, same, server>>

\* A try block that does not write the credential to localStorage.
FetchSucceedsNotStoring(e) ==
    /\ loading
    /\ ~reads[e].arrived
    /\ reads[e].resp = "ok"
    /\ Pending(reads) = {e}
    /\ \E d \in Body(server, e) :
        LET res == [reads EXCEPT ![e].data = d]
        IN /\ accounts' = res["bank-account"].data
           /\ currentUser' = res["user"].data
           /\ Render(res["transactions"].data, sortField, sortOrder)
    /\ reads' = Done(PlanOf(reads))
    /\ isAuthenticated' = TRUE
    /\ loading' = FALSE
    /\ initialLoading' = FALSE
    /\ outcome' = "success"
    /\ UNCHANGED <<error, token, sortField, sortOrder, storage, mounted, authToken,
                   orphans, prev, same, server>>

\* The last read succeeds: Promise.all resolves, the try block and finally run.
FetchSucceeds(e) ==
    /\ loading
    /\ ~reads[e].arrived
    /\ reads[e].resp = "ok"
    /\ Pending(reads) = {e}
    /\ \E d \in Body(server, e) :
        LET res == [reads EXCEPT ![e].data = d]
        IN /\ accounts' = res["bank-account"].data
           /\ currentUser' = res["user"].data
           /\ Render(res["transactions"].data, sortField, sortOrder)
    /\ reads' = Done(PlanOf(reads))
    /\ isAuthenticated' = TRUE
    /\ storage' = authToken
    /\ loading' = FALSE
    /\ initialLoading' = FALSE
    /\ outcome' = "success"
    /\ UNCHANGED <<error, token, sortField, sortOrder, mounted, authToken, orphans,
                   prev, same, server>>

\* A failure that still adopts the bodies that have arrived.
FetchFailsAdopting(e) ==
    /\ loading
    /\ ~reads[e].arrived
    /\ reads[e].resp # "ok"
    /\ reads' = [x \in Endpoints |->
                    [resp |-> reads[x].resp, arrived |-> reads[x].arrived \/ x = e,
                     data |-> Blank(x)]]
    /\ error' = ErrorMessage(reads[e].resp)
    /\ storage' = IF RemovesStoredKey(reads[e].resp) THEN NoKey ELSE storage
    /\ isAuthenticated' = FALSE
    /\ loading' = FALSE
    /\ initialLoading' = FALSE
    /\ outcome' = Classification(error')
    /\ accounts' = IF reads["bank-account"].arrived
                   THEN reads["bank-account"].data ELSE accounts
    /\ currentUser' = IF reads["user"].arrived THEN reads["user"].data ELSE currentUser
    /\ Render(IF reads["transactions"].arrived
              THEN reads["transactions"].data ELSE transactions, sortField, sortOrder)
    /\ UNCHANGED <<token, sortField, sortOrder, mounted, authToken, orphans, prev, same,
                   server>>

\* A failure classified by the read it came from: only the user read's 401
\* counts as unauthorized.
FetchFailsByEndpoint(e) ==
    /\ loading
    /\ ~reads[e].arrived
    /\ reads[e].resp # "ok"
    /\ reads' = [x \in Endpoints |->
                    [resp |-> reads[x].resp, arrived |-> reads[x].arrived \/ x = e,
                     data |-> Blank(x)]]
    /\ error' = IF e = "user" THEN ErrorMessage(reads[e].resp) ELSE MsgGeneric
    /\ storage' = IF e = "user" /\ RemovesStoredKey(reads[e].resp) THEN NoKey ELSE storage
    /\ isAuthenticated' = FALSE
    /\ loading' = FALSE
    /\ initialLoading' = FALSE
    /\ outcome' = Classification(error')
    /\ Render(transactions, sortField, sortOrder)
    /\ UNCHANGED <<accounts, currentUser, token, sortField, sortOrder, mounted,
                   authToken, orphans, prev, same, server>>

\* A failure without the finally block: the loading flags stay as they are.
FetchFailsNoFinally(e) ==
    /\ loading
    /\ ~reads[e].arrived
    /\ reads[e].resp # "ok"
    /\ reads' = [x \in Endpoints |->
                    [resp |-> reads[x].resp, arrived |-> reads[x].arrived \/ x = e,
                     data |-> Blank(x)]]
    /\ error' = ErrorMessage(reads[e].resp)
    /\ storage' = IF RemovesStoredKey(reads[e].resp) THEN NoKey ELSE storage
    /\ isAuthenticated' = FALSE
    /\ outcome' = Classification(error')
    /\ Render(transactions, sortField, sortOrder)
    /\ UNCHANGED <<accounts, currentUser, loading, initialLoading, token, sortField,
                   sortOrder, mounted, authToken, orphans, prev, same, server>>

\* A read fails: Promise.all rejects with its error, the catch block and
\* finally run.
FetchFails(e) ==
    /\ loading
    /\ ~reads[e].arrived
    /\ reads[e].resp # "ok"
    /\ reads' = [x \in Endpoints |->
                    [resp |-> reads[x].resp, arrived |-> reads[x].arrived \/ x = e,
                     data |-> Blank(x)]]
    /\ error' = ErrorMessage(reads[e].resp)
    /\ storage' = IF RemovesStoredKey(reads[e].resp) THEN NoKey ELSE storage
    /\ isAuthenticated' = FALSE
    /\ loading' = FALSE
    /\ initialLoading' = FALSE
    /\ outcome' = Classification(error')
    /\ Render(transactions, sortField, sortOrder)
    /\ UNCHANGED <<accounts, currentUser, token, sortField, sortOrder, mounted,
                   authToken, orphans, prev, same, server>>

\* A late response handled like the first failure: a 401 removes the key.
LateResponseHandled(e) ==
    /\ ~loading
    /\ ~reads[e].arrived
    /\ reads' = [reads EXCEPT ![e].arrived = TRUE]
    /\ storage' = IF RemovesStoredKey(reads[e].resp) THEN NoKey ELSE storage
    /\ UNCHANGED <<transactions, accounts, currentUser, loading, initialLoading, error,
                   token, isAuthenticated, sortField, sortOrder, sortedTransactions,
                   mounted, authToken, orphans, outcome, prev, same, server>>

\* A read of the call last settled arrives after Promise.all has settled.
LateResponse(e) ==
    /\ ~loading
    /\ ~reads[e].arrived
    /\ reads' = [reads EXCEPT ![e].arrived = TRUE]
    /\ UNCHANGED <<page, mounted, authToken, orphans, outcome, prev, same, server>>

\* A read of a still earlier call arrives.
OrphanResponse ==
    /\ orphans > 0
    /\ orphans' = orphans - 1
    /\ UNCHANGED <<page, mounted, authToken, reads, outcome, prev, same, server>>

\* onClick of the Logout button.
Logout ==
    /\ DashboardShown
    /\ token' = ""
    /\ isAuthenticated' = FALSE
    /\ accounts' = <<>>
    /\ storage' = NoKey
    /\ Render(<<>>, sortField, sortOrder)
    /\ UNCHANGED <<currentUser, loading, initialLoading, error, sortField, sortOrder,
                   mounted, authToken, reads, orphans, outcome, prev, same, server>>

\* A handleSort that always sets ascending order.
SelectedAscending(field, curField, curOrder) == [field |-> field, order |-> "asc"]

\* The sort state handleSort(field) sets, from the current one.
Selected(field, curField, curOrder) ==
    IF curField = field
    THEN [field |-> curField, order |-> IF curOrder = "asc" THEN "desc" ELSE "asc"]
    ELSE [field |-> field, order |-> "asc"]

\* handleSort, from a click on a column header of the table.
HandleSort(field) ==
    /\ DashboardShown
    /\ ~loading
    /\ sortField' = Selected(field, sortField, sortOrder).field
    /\ sortOrder' = Selected(field, sortField, sortOrder).order
    /\ Render(transactions, sortField', sortOrder')
    /\ UNCHANGED <<accounts, currentUser, loading, initialLoading, error, token,
                   isAuthenticated, storage, mounted, authToken, reads, orphans,
                   outcome, prev, same, server>>

Next ==
    \/ Mount
    \/ \E t \in Creds \cup {""} : ChangeToken(t)
    \/ Continue
    \/ \E e \in Endpoints : ReadSucceeds(e)
    \/ \E e \in Endpoints : FetchSucceeds(e)
    \/ \E e \in Endpoints : FetchFails(e)
    \/ \E e \in Endpoints : LateResponse(e)
    \/ OrphanResponse
    \/ Logout
    \/ \E f \in SortFields : HandleSort(f)

\* The dashboard as a successful load from the stored credential leaves it,
\* for the lists the views are checked on.
InitViews ==
    /\ \E body \in ViewLists :
        /\ transactions = RenderedTransactions(body)
        /\ sortedTransactions = RenderedRows(body, "date", "desc")
    /\ accounts \in ViewAccounts
    /\ currentUser \in UserIds
    /\ loading = FALSE
    /\ initialLoading = FALSE
    /\ error = NoError
    /\ token = "k1"
    /\ isAuthenticated = TRUE
    /\ sortField = "date"
    /\ sortOrder = "desc"
    /\ storage = "k1"
    /\ mounted = TRUE
    /\ authToken = "k1"
    /\ reads = Done([e \in Endpoints |-> "ok"])
    /\ orphans = 0
    /\ outcome = "success"
    /\ prev = "none"
    /\ same = FALSE
    /\ server = SteadyServer

\* The views are derived anew from what the user leaves behind.
NextViews == Logout

Spec == Init /\ [][Next]_vars

SpecViews == InitViews /\ [][NextViews]_vars

\* The read of an endpoint responds.
Respond(e) == ReadSucceeds(e) \/ FetchSucceeds(e) \/ FetchFails(e)

\* The page with a network on which every read is answered in the end.
SpecResponsive ==
    Init /\ [][Next]_vars /\ \A e \in Endpoints : WF_vars(Respond(e))

SpecSteady == InitSteady /\ [][Next]_vars

-----------------------------------------------------------------------------
(* Properties of the data loader *)

\* The step settles the call in flight.
Settles == loading /\ ~loading'

\* The step settles the call in flight by resolving Promise.all.
SettlesResolved == Settles /\ \A e \in Endpoints : reads[e].resp = "ok"

\* The read whose failure settles the call in this step.
Rejecting(e) ==
    Settles /\ ~reads[e].arrived /\ reads'[e].arrived /\ reads[e].resp # "ok"

\* A body that arrived before the step is the value the page holds after it.
AdoptedFrom(rs) ==
    /\ rs["transactions"].arrived =>
          transactions' = RenderedTransactions(rs["transactions"].data)
    /\ rs["bank-account"].arrived => accounts' = rs["bank-account"].data
    /\ rs["user"].arrived => currentUser' = rs["user"].data

\* C1: a load adopts its results all or nothing.  While a call is in flight
\* and when it settles by a failed read, transactions, accounts and
\* currentUser stay as they are and the page is not authenticated; they are
\* replaced, all three together and by the bodies the reads returned, only in
\* the step in which the third read has succeeded.
C1_AllOrNothing ==
    [][loading =>
          IF SettlesResolved
          THEN /\ isAuthenticated'
               /\ AdoptedFrom(reads)
               /\ accounts' \in AccountLists
               /\ currentUser' \in UserIds
          ELSE /\ UNCHANGED <<transactions, accounts, currentUser>>
               /\ ~isAuthenticated']_vars

\* A call failed after the body of a sibling read had arrived, in a session
\* that holds a user from an earlier load.
C1_Witness ==
    /\ ~loading
    /\ outcome \in Classes \ {"success"}
    /\ \E e \in Endpoints : reads[e].arrived /\ reads[e].resp = "ok"
    /\ currentUser # NoUser
    /\ ~isAuthenticated

\* C2: a load that fails by a 401 shows the unauthorized message, removes the
\* stored credential and leaves the page not authenticated; a load that
\* succeeds marks the page authenticated and stores the credential it was
\* started with, also after such a failure.
C2_UnauthorizedThenValid ==
    [][/\ (\E e \in Endpoints : Rejecting(e) /\ reads[e].resp = "e401") =>
              /\ error' = MsgUnauthorized
              /\ storage' = NoKey
              /\ ~isAuthenticated'
       /\ SettlesResolved =>
              /\ isAuthenticated'
              /\ storage' = authToken
              /\ error' = NoError]_vars

\* A load with a valid credential has succeeded right after one that failed
\* by a 401, and the credential is stored again.
C2_Witness ==
    /\ isAuthenticated
    /\ outcome = "success"
    /\ prev = "unauthorized"
    /\ storage = authToken
    /\ storage \in ValidCreds

\* C3: a load that fails in any way but a 401 leaves the stored credential,
\* the entered credential, the transactions, the accounts and the current
\* user as they were.
C3_OtherFailuresKeepState ==
    [][(\E e \in Endpoints : Rejecting(e) /\ reads[e].resp # "e401") =>
          UNCHANGED <<storage, token, transactions, accounts, currentUser>>]_vars

\* A load started from the stored credential failed in another way than a
\* 401: the credential is still stored and still entered.
C3_Witness ==
    /\ ~loading
    /\ outcome \in {"not-found", "refused", "generic", "unexpected"}
    /\ storage \in Creds
    /\ token = storage

\* The state of the page without the loading flags' history: what a response
\* that is ignored must leave alone.
C4_Ignored == UNCHANGED <<page, authToken, outcome>>

\* C4: the call stays in flight exactly as long as no read has failed and
\* some read is awaited; the read that fails first gives the displayed
\* message and the classification; responses that arrive after the call has
\* settled change nothing (a late 401 does not remove the stored credential).
C4_FirstFailureWins ==
    /\ [](loading =>
            /\ \A e \in Endpoints : reads[e].arrived => reads[e].resp = "ok"
            /\ Pending(reads) # {})
    /\ [][\A e \in Endpoints :
            Rejecting(e) =>
                /\ error' = ErrorMessage(reads[e].resp)
                /\ outcome' = Classification(ErrorMessage(reads[e].resp))
                /\ storage' = IF reads[e].resp = "e401" THEN NoKey ELSE storage]_vars
    /\ [][(~loading /\ ~loading' /\ Pending(reads') # Pending(reads)) => C4_Ignored]_vars
    /\ [][orphans' < orphans => C4_Ignored]_vars

\* A call was settled by a 404 (or another fault) while a credential is
\* stored, and the 401 of a sibling read has arrived since.
C4_Witness ==
    /\ ~loading
    /\ outcome \in {"not-found", "refused", "generic", "unexpected"}
    /\ storage \in Creds
    /\ \E e \in Endpoints : reads[e].arrived /\ reads[e].resp = "e401"

\* The reads of a plan fail, if at all, in one way only.
OneFailureKind(p) == Cardinality({p[e] : e \in Endpoints} \ {"ok"}) <= 1

\* The effect of a settling step on the stored credential is the one its
\* classification stands for.
C5_EffectByClass ==
    [][Settles =>
          storage' = CASE outcome' = "success" -> authToken
                       [] outcome' = "unauthorized" -> NoKey
                       [] OTHER -> storage]_vars

\* C5 as stated: a call with the credential and the per-endpoint responses
\* of the call before it gets the classification that call got, whatever
\* the order in which the responses arrive.
C5_Original == (~loading /\ same) => outcome = prev

\* C5, amended: a call with the credential and the per-endpoint responses of
\* the call before it gets the same classification and has the same effect
\* on the stored credential, whatever the order of arrival, provided the
\* failing responses are all of one kind.
C5_Idempotent ==
    /\ []((~loading /\ same /\ OneFailureKind(PlanOf(reads))) => outcome = prev)
    /\ C5_EffectByClass

\* A call repeated the one before it, two or more of its reads failed (all
\* the same way), and it was classified as that one was.
C5_Witness ==
    /\ ~loading
    /\ same
    /\ OneFailureKind(PlanOf(reads))
    /\ Cardinality({e \in Endpoints : reads[e].resp # "ok"}) >= 2
    /\ outcome = prev

-----------------------------------------------------------------------------
(* Properties of logout and of the table sorter *)

\* C6 as stated: the step that logs out leaves no stored credential, an
\* empty entered credential, a page that is not authenticated, and no
\* transactions, accounts or current user.
C6_LogoutClearsAll ==
    [][(isAuthenticated /\ ~isAuthenticated') =>
          /\ storage' = NoKey
          /\ token' = ""
          /\ transactions' = <<>>
          /\ accounts' = <<>>
          /\ currentUser' = NoUser]_vars

Flipped(order) == IF order = "asc" THEN "desc" ELSE "asc"

\* C7: the sort state starts as (date, desc); from any sort state, selecting
\* the active field keeps it and flips the direction while selecting another
\* field makes it active, ascending; every change of the sort state is such
\* a selection, and it comes with no change of what loads and logout work on.
C7_SortStateMachine ==
    /\ sortField = "date" /\ sortOrder = "desc"
    /\ [](\A f \in SortFields :
            Selected(f, sortField, sortOrder) =
                [field |-> f,
                 order |-> IF f = sortField THEN Flipped(sortOrder) ELSE "asc"])
    /\ [][\A f \in SortFields :
            HandleSort(f) =>
                /\ sortField' = f
                /\ sortOrder' = IF f = sortField THEN Flipped(sortOrder) ELSE "asc"]_vars
    /\ [][(sortField' # sortField \/ sortOrder' # sortOrder) =>
            /\ DashboardShown
            /\ \/ sortField' = sortField /\ sortOrder' = Flipped(sortOrder)
               \/ sortField' # sortField /\ sortOrder' = "asc"
            /\ UNCHANGED <<accounts, currentUser, loading, initialLoading, error, token,
                           isAuthenticated, storage, authToken, reads, orphans>>]_vars

\* A load is in flight after a logout, and the sort state a second selection
\* of a field had set is still there.
C7_Witness ==
    /\ loading
    /\ currentUser # NoUser
    /\ sortField = "to"
    /\ sortOrder = "desc"

C9_StableInLoadedOrder ==
    \A i, j \in 1..Len(sortedTransactions) :
        (/\ i < j
         /\ TableCompare(sortField, sortOrder,
                         sortedTransactions[i], sortedTransactions[j]) = 0)
        => sortedTransactions[i].id < sortedTransactions[j].id

-----------------------------------------------------------------------------
(* Properties of the analytics transform *)

\* C10: for the transactions held and any user taken as the current one, the
\* income total plus the expense total is the total volume.
C10_TypesPartitionVolume ==
    \A u \in UserIds \cup {NoUser} :
        TransactionTypes(transactions, u).Income
            + TransactionTypes(transactions, u).Expense = TotalVolume(transactions)

\* The list held has income and expense for the current user and an amount
\* stored with a negative sign.
C10_Witness ==
    /\ isAuthenticated
    /\ TransactionTypes(transactions, currentUser).Income > 0
    /\ TransactionTypes(transactions, currentUser).Expense > 0
    /\ \E i \in 1..Len(transactions) : transactions[i].amount < 0

\* Income total minus expense total of the transactions, for the user.
Net(txs, user) ==
    TransactionTypes(txs, user).Income - TransactionTypes(txs, user).Expense

\* The date key of the latest transaction.
LatestKey(txs) == DateKey(BalanceSorted(txs)[Len(txs)].createdAt)

\* The balance a curve holds in the bucket of a date key.
BalanceAt(curve, key) == curve[FindIndex(curve, key)].balance

\* C11 as stated: for a list that is not empty and a first account whose
\* balance is the net of all transactions, the balance curve and the reversed
\* running-balance curve hold the same balance in the bucket of the latest
\* date.
C11_RoundTrip ==
    (transactions # <<>> /\ SeedBalance(accounts) = Net(transactions, currentUser)) =>
        BalanceAt(BalanceData(transactions, currentUser), LatestKey(transactions))
            = BalanceAt(RunningBalanceData(transactions, accounts, currentUser),
                        LatestKey(transactions))

\* The transactions in ascending timestamp order up to and including the
\* latest whose date key is key.
UpToLatestOf(txs, key) ==
    LET sorted == BalanceSorted(txs)
        last == CHOOSE k \in 1..Len(sorted) :
                    /\ DateKey(sorted[k].createdAt) = key
                    /\ \A j \in (k + 1)..Len(sorted) : DateKey(sorted[j].createdAt) # key
    IN SubSeq(sorted, 1, last)

DateKeys(txs) == {DateKey(txs[i].createdAt) : i \in 1..Len(txs)}

\* C12 as stated: the balance curve has one bucket for each date key of the
\* list and no other, and the balance of a bucket is the running total just
\* after the latest transaction of its date key.
C12_BucketHoldsRunningTotal ==
    LET curve == BalanceData(transactions, currentUser)
    IN /\ Len(curve) = Cardinality(DateKeys(transactions))
       /\ {curve[i].date : i \in 1..Len(curve)} = DateKeys(transactions)
       /\ \A i \in 1..Len(curve) :
            curve[i].balance
                = Net(UpToLatestOf(transactions, curve[i].date), currentUser)

\* C13 as stated: the balance curve of a list that is not empty ends at the
\* income total minus the expense total.
C13_Original ==
    LET curve == BalanceData(transactions, currentUser)
    IN transactions # <<>> => curve[Len(curve)].balance = Net(transactions, currentUser)

\* In ascending timestamp order, the transactions of one date key follow one
\* another.
KeysAdjacent(txs) ==
    LET sorted == BalanceSorted(txs)
    IN \A i, j \in 1..Len(sorted) :
        (i < j /\ DateKey(sorted[i].createdAt) = DateKey(sorted[j].createdAt))
            => \A k \in i..j : DateKey(sorted[k].createdAt) = DateKey(sorted[i].createdAt)

\* C13, amended: the balance curve of a list that is not empty and whose
\* transactions of one date key follow one another in timestamp order ends
\* at the income total minus the expense total.
C13_CurveEndsAtNet ==
    LET curve == BalanceData(transactions, currentUser)
    IN (transactions # <<>> /\ KeysAdjacent(transactions)) =>
          curve[Len(curve)].balance = Net(transactions, currentUser)

\* Money was received and sent, on more than one date, and one stored amount
\* is negative.
C13_Witness ==
    /\ isAuthenticated
    /\ KeysAdjacent(transactions)
    /\ Len(BalanceData(transactions, currentUser)) >= 2
    /\ TransactionTypes(transactions, currentUser).Income > 0
    /\ TransactionTypes(transactions, currentUser).Expense > 0
    /\ \E i \in 1..Len(transactions) : transactions[i].amount < 0

\* The name of the other party of a transaction.
PartnerName(tx, user) ==
    IF IsIncoming(tx, user) THEN UserName(tx.from) ELSE UserName(tx.to)

\* The place in the loaded list of the first transaction with the partner.
FirstMet(txs, user, name) ==
    CHOOSE k \in {txs[i].id : i \in 1..Len(txs)} :
        /\ \E i \in 1..Len(txs) : txs[i].id = k /\ PartnerName(txs[i], user) = name
        /\ \A i \in 1..Len(txs) :
              PartnerName(txs[i], user) = name => txs[i].id >= k

\* C14 as stated: the top-counterparties list has min(5, number of names)
\* entries, the total of each is its incoming plus its outgoing, totals do
\* not increase along the list, and entries of equal total are in the order
\* in which the loaded list first names them.
C14_TopPartners ==
    LET top == TopPartnersData(transactions, currentUser)
        names == {PartnerName(transactions[i], currentUser) : i \in 1..Len(transactions)}
    IN /\ Len(top) = IF Cardinality(names) < 5 THEN Cardinality(names) ELSE 5
       /\ \A i \in 1..Len(top) : top[i].total = top[i].incoming + top[i].outgoing
       /\ \A i, j \in 1..Len(top) :
            i < j =>
                /\ top[i].total >= top[j].total
                /\ top[i].total = top[j].total =>
                      FirstMet(transactions, currentUser, top[i].name)
                          < FirstMet(transactions, currentUser, top[j].name)

\* C15: with no transactions held, every bucketed view is an empty series,
\* the summary statistics are all 0 and so are the income and expense
\* totals, whatever accounts and current user the page holds.
C15_EmptyList ==
    transactions = <<>> =>
        LET v == Views(transactions, accounts, currentUser)
        IN /\ v.balanceData = <<>>
           /\ v.runningBalanceData = <<>>
           /\ v.monthlyChartData = <<>>
           /\ v.topPartnersData = <<>>
           /\ v.dailyTransactionData = <<>>
           /\ v.transactionStats =
                [totalTransactions |-> 0, totalVolume |-> 0, averageAmount |-> 0,
                 largestTransaction |-> 0, smallestTransaction |-> 0]
           /\ v.transactionTypes = [Income |-> 0, Expense |-> 0]

\* A load has returned no transactions, for a user who has an account.
C15_Witness ==
    /\ DashboardShown
    /\ transactions = <<>>
    /\ accounts # <<>>
    /\ currentUser # NoUser

\* C16 as stated: the list held after a render is the list as it was loaded
\* (the id of a transaction is its place in the loaded list).
C16_ListAsLoaded == \A i \in 1..Len(transactions) : transactions[i].id = i

\* The list with the sign of the stored amount of its k-th element flipped.
Flip(txs, k) == [txs EXCEPT ![k].amount = -txs[k].amount]

\* C17: every view derived from the list held is the view derived from the
\* list with the sign of the stored amount of any one transaction flipped.
C17_SignIgnored ==
    LET held == Views(transactions, accounts, currentUser)
    IN \A k \in 1..Len(transactions) :
          Views(Flip(transactions, k), accounts, currentUser) = held

\* The list held has a received and a sent transaction, a negative and a
\* positive stored amount, and an account to seed the running balance.
C17_Witness ==
    /\ isAuthenticated
    /\ accounts # <<>>
    /\ \E i, j \in 1..Len(transactions) :
          /\ transactions[i].amount < 0
          /\ transactions[j].amount > 0
          /\ IsIncoming(transactions[i], currentUser)
          /\ ~IsIncoming(transactions[j], currentUser)

-----------------------------------------------------------------------------
(* Properties of the loading flag, of the calls in flight and of the stored  *)
(* credential                                                                *)

\* The call last started has not settled: no read of it has failed, and a
\* read of it is awaited.
InFlight(rs) ==
    /\ Pending(rs) # {}
    /\ \A e \in Endpoints : rs[e].arrived => rs[e].resp = "ok"

\* The step brings the response that settles the call in flight: a failure,
\* or the last success.
SettlingArrival ==
    /\ InFlight(reads)
    /\ \E e \in Endpoints :
          /\ ~reads[e].arrived
          /\ reads'[e].arrived
          /\ reads[e].resp # "ok" \/ Pending(reads) = {e}

\* C18: loading is true exactly while the call last started has not settled;
\* the step in which it settles, by success or by any failure, leaves loading
\* and initialLoading false; without such a response loading stays true; and
\* when every read is answered in the end, a load in flight settles.
C18_LoadingFlag ==
    /\ [](loading <=> InFlight(reads))
    /\ [][SettlingArrival => (~loading' /\ ~initialLoading')]_vars
    /\ [][(loading /\ ~SettlingArrival) => loading']_vars
    /\ (loading ~> ~loading)

\* A load started by the mount effect was settled by a read that threw, and
\* the login form is on screen.
C18_Witness ==
    /\ FormShown
    /\ ~loading
    /\ outcome = "unexpected"
    /\ token = storage

\* The step starts a load: the three reads of a call are sent.
Starts == Pending(reads') = Endpoints /\ Pending(reads) # Endpoints

\* The step takes the page from authenticated to not authenticated.
LogsOut == isAuthenticated /\ ~isAuthenticated'

\* C19: a load starts only while none is in flight and the page is not
\* authenticated, at startup or from the login form; the page is never
\* authenticated while a load is in flight, so a logout finds none in flight;
\* accounts and current user are replaced only by the load that settles in
\* that step or by a logout.
C19_OneLoadAtATime ==
    /\ [][Starts => (/\ ~loading
                     /\ ~isAuthenticated
                     /\ ~mounted \/ FormShown)]_vars
    /\ [](loading => ~isAuthenticated)
    /\ [][LogsOut => (~loading /\ ~loading')]_vars
    /\ [][(accounts' # accounts \/ currentUser' # currentUser) =>
             (SettlesResolved \/ LogsOut)]_vars

\* A load started from the login form after a logout is in flight.
C19_Witness ==
    /\ loading
    /\ FormShown
    /\ currentUser # NoUser
    /\ storage = NoKey
    /\ prev = "success"

\* C20: while the page is authenticated, localStorage holds a credential, the
\* one the last load was started with, and that load succeeded; the stored
\* credential changes only when a load succeeds, to the credential of that
\* load, or when a 401 settles a load or the user logs out, to none, and
\* then the page is not authenticated.
C20_AuthenticatedHasKey ==
    /\ [](isAuthenticated =>
            /\ storage # NoKey
            /\ storage = authToken
            /\ outcome = "success"
            /\ ~loading)
    /\ [][storage' # storage =>
            \/ SettlesResolved /\ storage' = authToken /\ isAuthenticated'
            \/ /\ storage' = NoKey
               /\ ~isAuthenticated'
               /\ LogsOut \/ \E e \in Endpoints : Rejecting(e) /\ reads[e].resp = "e401"]_vars

\* The page is authenticated by a second successful load, after a logout
\* had removed the stored credential.
C20_Witness ==
    /\ isAuthenticated
    /\ storage \in ValidCreds
    /\ prev = "success"

====
